---------------------------- MODULE Spec2Model ----------------------------
(***************************************************************************)
(* Model of std/fs/expand_glob.ts: expandGlob and expandGlobSync expand a  *)
(* glob against a filesystem tree, segment by segment.                     *)
(*                                                                         *)
(* Strings are sequences of one-character strings, so that splitting,      *)
(* joining, normalising, matching and comparing paths are computed the     *)
(* way the code computes them.  The model is of the POSIX build            *)
(* (isWindows = FALSE, so winRoot is never defined).                       *)
(***************************************************************************)
EXTENDS Integers, Sequences, FiniteSets, TLC

(***************************************************************************)
(* Characters and strings                                                  *)
(***************************************************************************)

\* The code unit of each character of the model's alphabet (JavaScript
\* compares strings by code unit).
Code(c) ==
    CASE c = "*" -> 42
      [] c = "." -> 46
      [] c = "/" -> 47
      [] c = "a" -> 97
      [] c = "b" -> 98
      [] c = "c" -> 99
      [] c = "d" -> 100
      [] c = "m" -> 109
      [] c = "o" -> 111
      [] c = "r" -> 114
      [] c = "s" -> 115
      [] c = "t" -> 116
      [] c = "x" -> 120
      [] c = "y" -> 121
      [] c = "#" -> 0

SEP == "/"

\* JavaScript's a < b on strings.
RECURSIVE StrLess(_, _)
StrLess(a, b) ==
    IF b = <<>> THEN FALSE
    ELSE IF a = <<>> THEN TRUE
    ELSE IF Code(Head(a)) < Code(Head(b)) THEN TRUE
    ELSE IF Code(Head(a)) > Code(Head(b)) THEN FALSE
    ELSE StrLess(Tail(a), Tail(b))

\* The pieces of s between separators, empty pieces included
\* (String.prototype.split on a single separator character).
RECURSIVE SplitSep(_, _)
SplitSep(s, cur) ==
    IF s = <<>> THEN <<cur>>
    ELSE IF Head(s) = SEP THEN <<cur>> \o SplitSep(Tail(s), <<>>)
    ELSE SplitSep(Tail(s), Append(cur, Head(s)))

RECURSIVE JoinSep(_)
JoinSep(segs) ==
    IF segs = <<>> THEN <<>>
    ELSE IF Len(segs) = 1 THEN segs[1]
    ELSE segs[1] \o <<SEP>> \o JoinSep(Tail(segs))

RECURSIVE StripLeadingSeps(_)
StripLeadingSeps(s) ==
    IF s # <<>> /\ Head(s) = SEP THEN StripLeadingSeps(Tail(s)) ELSE s

RECURSIVE StripTrailingSeps(_)
StripTrailingSeps(s) ==
    IF s # <<>> /\ s[Len(s)] = SEP
    THEN StripTrailingSeps(SubSeq(s, 1, Len(s) - 1)) ELSE s

NonEmpty(segs) == SelectSeq(segs, LAMBDA x : x # <<>>)

(***************************************************************************)
(* Path utilities of std/path (POSIX)                                      *)
(***************************************************************************)

isAbsolute(path) == path # <<>> /\ Head(path) = SEP

DOTDOT == <<".", ".">>
DOT == <<".">>
GLOBSTAR == <<"*", "*">>
\* The placeholder normalizeGlob puts in place of a ".." that follows "**".
NUL == <<"#">>

\* normalizeString: drops "." and empty segments and resolves "..".
RECURSIVE normalizeString(_, _, _)
normalizeString(segs, res, allowAboveRoot) ==
    IF segs = <<>> THEN res
    ELSE LET s == Head(segs) IN
         IF s = <<>> \/ s = DOT THEN normalizeString(Tail(segs), res, allowAboveRoot)
         ELSE IF s = DOTDOT THEN
              IF res # <<>> /\ res[Len(res)] # DOTDOT
              THEN normalizeString(Tail(segs), SubSeq(res, 1, Len(res) - 1), allowAboveRoot)
              ELSE IF allowAboveRoot
              THEN normalizeString(Tail(segs), Append(res, s), allowAboveRoot)
              ELSE normalizeString(Tail(segs), res, allowAboveRoot)
         ELSE normalizeString(Tail(segs), Append(res, s), allowAboveRoot)

normalize(path) ==
    IF path = <<>> THEN DOT
    ELSE LET abs == isAbsolute(path)
             trailing == path[Len(path)] = SEP
             body == JoinSep(normalizeString(SplitSep(path, <<>>), <<>>, ~abs))
             body1 == IF body = <<>> /\ ~abs THEN DOT ELSE body
             body2 == IF body1 # <<>> /\ trailing THEN Append(body1, SEP) ELSE body1
         IN IF abs THEN <<SEP>> \o body2 ELSE body2

join(paths) ==
    LET joined == JoinSep(NonEmpty(paths))
    IN IF joined = <<>> THEN DOT ELSE normalize(joined)

\* normalizeGlob: with globstar, a ".." right after a "**" segment is kept
\* (it cannot be resolved lexically); every other ".." is resolved.
RECURSIVE ProtectParents(_, _)
ProtectParents(segs, prev) ==
    IF segs = <<>> THEN <<>>
    ELSE LET s == Head(segs)
             t == IF s = DOTDOT /\ prev = GLOBSTAR THEN NUL ELSE s
         IN <<t>> \o ProtectParents(Tail(segs), s)

Widen(s) == IF s = NUL THEN DOTDOT ELSE s

RECURSIVE RestoreSegs(_)
RestoreSegs(segs) ==
    IF segs = <<>> THEN <<>> ELSE <<Widen(Head(segs))>> \o RestoreSegs(Tail(segs))

normalizeGlob(glob, globstar) ==
    IF ~globstar THEN normalize(glob)
    ELSE LET protected == JoinSep(ProtectParents(SplitSep(glob, <<>>), <<>>))
         IN JoinSep(RestoreSegs(SplitSep(normalize(protected), <<>>)))

joinGlobs(globs, globstar) ==
    IF ~globstar THEN join(globs)
    ELSE LET joined == JoinSep(NonEmpty(globs))
         IN IF joined = <<>> THEN DOT ELSE normalizeGlob(joined, globstar)

\* isGlob: whether a segment contains a glob metacharacter.
isGlob(seg) == \E i \in 1..Len(seg) : seg[i] = "*"

\* globToRegExp(pattern) applied to a path: an anchored match in which "*"
\* stands for any run of characters other than the separator, and trailing
\* separators of the path are allowed.
RECURSIVE globMatch(_, _)
globMatch(pat, str) ==
    IF pat = <<>> THEN StripTrailingSeps(str) = <<>>
    ELSE IF Head(pat) = "*"
         THEN \/ globMatch(Tail(pat), str)
              \/ str # <<>> /\ Head(str) # SEP /\ globMatch(pat, Tail(str))
    ELSE str # <<>> /\ Head(str) = Head(pat) /\ globMatch(Tail(pat), Tail(str))

(***************************************************************************)
(* split (expand_glob.ts)                                                  *)
(***************************************************************************)

\* split(path): the segments between separators once the leading and the
\* trailing run of separators are removed, and whether the path ended with
\* a separator.  "".split(SEP_PATTERN) is [""].
splitRuns(s) == IF s = <<>> THEN << <<>> >> ELSE NonEmpty(SplitSep(s, <<>>))

split(path) ==
    [segments |-> splitRuns(StripTrailingSeps(StripLeadingSeps(path))),
     isAbsolute |-> isAbsolute(path),
     hasTrailingSep |-> path # <<>> /\ path[Len(path)] = SEP]


(***************************************************************************)
(* State                                                                   *)
(***************************************************************************)

VARIABLES
    dirs,            \* filesystem: the paths that are directories
    files,           \* filesystem: the paths that are regular files
    broken,          \* paths whose stat / readDir fails with an I/O or permission error
    unlinks,         \* how many subtrees the environment has removed
    glob,            \* argument: the glob string
    root,            \* option: root
    exclude,         \* option: exclude, a sequence of glob strings
    globstar,        \* option: globstar
    includeDirs,     \* option: includeDirs, of the call in progress
    mode,            \* "async" (expandGlob) or "sync" (expandGlobSync), of the call in progress
    pc,              \* position of the generator: start, match, yield, done, failed
    segments,        \* the segments still to be advanced
    hasTrailingSep,  \* split(...).hasTrailingSep
    currentMatches,  \* the working set
    nextMatchMap,    \* the Map of the segment being advanced, in insertion order
    idx,             \* index in currentMatches of the match advanced next
    advanced,        \* the paths advanceMatch was invoked on for the segment in progress
    yielded,         \* the entries the caller has received
    err,             \* the error thrown to the caller: "none", "NotFound" or "Other"
    first            \* the outcome of the first call, once a second one has started

vars == <<dirs, files, broken, unlinks, glob, root, exclude, globstar, includeDirs,
          mode, pc, segments, hasTrailingSep, currentMatches, nextMatchMap, idx,
          advanced, yielded, err, first>>

fsVars == <<dirs, files, broken, unlinks>>
argVars == <<glob, root, exclude, globstar>>

(***************************************************************************)
(* The filesystem primitives and the walker of std/fs/walk.ts              *)
(***************************************************************************)

Entry(p, d) == [path |-> p, isDirectory |-> d]

\* Deno.readDir(p), each name joined with p: the nodes directly inside
\* directory p.
children(p) ==
    LET pre == IF p = <<SEP>> THEN p ELSE Append(p, SEP)
    IN {q \in dirs \cup files :
           /\ Len(q) > Len(pre)
           /\ SubSeq(q, 1, Len(pre)) = pre
           /\ \A i \in (Len(pre) + 1)..Len(q) : q[i] # SEP}

\* createWalkEntry(path): stat of the normalized path.
createWalkEntry(path) ==
    LET p == normalize(path) IN
    IF p \notin dirs \cup files THEN [err |-> "NotFound", entry |-> Entry(p, FALSE)]
    ELSE IF p \in broken THEN [err |-> "Other", entry |-> Entry(p, FALSE)]
    ELSE [err |-> "none", entry |-> Entry(p, p \in dirs)]

\* The error of Deno.readDir(p), "none" when it lists p.
readDirErr(p) ==
    IF p \notin dirs \cup files THEN "NotFound"
    ELSE IF p \in broken \/ p \notin dirs THEN "Other"
    ELSE "none"

\* walk's default maxDepth.
Infinity == 1000

\* No match option given.
NoMatch == {<<"#">>}

\* include(path, exts, match, skip) of walk.ts.
include(path, match, skip) ==
    /\ match = NoMatch \/ \E pat \in match : globMatch(pat, path)
    /\ ~ \E pat \in skip : globMatch(pat, path)

\* walk(root, {maxDepth, includeFiles, match, skip}): the entries it yields,
\* as a set (the order is that of the directory listings), or its error.
RECURSIVE walk(_, _, _, _, _)
walk(w, maxDepth, includeFiles, match, skip) ==
    LET self == createWalkEntry(w)
        own == IF include(w, match, skip) THEN {self.entry} ELSE {}
        sub == [c \in children(w) \cap dirs |->
                   walk(c, maxDepth - 1, includeFiles, match, skip)]
        subErrs == {sub[c].err : c \in DOMAIN sub} \ {"none"}
        fileEntries == {Entry(c, FALSE) : c \in
                          {c \in children(w) \cap files :
                              includeFiles /\ include(c, match, skip)}}
    IN IF maxDepth < 0 THEN [err |-> "none", entries |-> {}]
       ELSE IF include(w, match, skip) /\ self.err # "none"
            THEN [err |-> self.err, entries |-> {}]
       ELSE IF maxDepth < 1 \/ ~include(w, NoMatch, skip)
            THEN [err |-> "none", entries |-> own]
       ELSE IF readDirErr(w) # "none"
            THEN [err |-> readDirErr(w), entries |-> {}]
       ELSE IF subErrs # {}
            THEN [err |-> CHOOSE e \in subErrs : TRUE, entries |-> {}]
       ELSE [err |-> "none",
             entries |-> own \cup fileEntries
                         \cup UNION {sub[c].entries : c \in DOMAIN sub}]


(***************************************************************************)
(* expandGlob: the part before the segment loop                            *)
(***************************************************************************)

\* Deno.cwd()
cwd == <<"/">>

absRoot ==
    IF isAbsolute(root) THEN normalize(root) ELSE joinGlobs(<<cwd, root>>, globstar)

\* Variant of resolveFromRoot that joins a relative path to the working
\* directory instead of the root.
resolveFromCwd(path) ==
    IF isAbsolute(path) THEN normalize(path) ELSE joinGlobs(<<cwd, path>>, globstar)

resolveFromRoot(path) ==
    IF isAbsolute(path) THEN normalize(path) ELSE joinGlobs(<<absRoot, path>>, globstar)

\* The exclude globs resolved from the root; globMatch plays the RegExp.
excludePatterns == {resolveFromRoot(exclude[i]) : i \in 1..Len(exclude)}

shouldInclude(path) == ~ \E p \in excludePatterns : globMatch(p, path)

\* The while loop that shifts the leading segments without glob
\* metacharacters into fixedRoot.
RECURSIVE consumeFixed(_, _)
consumeFixed(fixedRoot, segs) ==
    IF segs # <<>> /\ ~isGlob(Head(segs))
    THEN consumeFixed(joinGlobs(<<fixedRoot, Head(segs)>>, globstar), Tail(segs))
    ELSE [fixedRoot |-> fixedRoot, segments |-> segs]

splitGlob == split(resolveFromRoot(glob))

fixed == consumeFixed(<<SEP>>, splitGlob.segments)

\* Variant of throwUnlessNotFound that rethrows every error.
throwAlways(error) == error

\* throwUnlessNotFound(error): the error it throws, "none" when it returns.
throwUnlessNotFound(error) == IF error # "NotFound" THEN error ELSE "none"

\* What the generator has done when it first reaches the segment loop:
\* thrown (pc "failed"), returned (pc "done") or seeded the working set.
begin(info) ==
    IF info.err # "none"
    THEN IF throwUnlessNotFound(info.err) # "none"
         THEN [pc |-> "failed", err |-> throwUnlessNotFound(info.err), matches |-> <<>>]
         ELSE [pc |-> "done", err |-> "none", matches |-> <<>>]
    ELSE [pc |-> "match", err |-> "none", matches |-> <<info.entry>>]

expandGlobBegin == begin(createWalkEntry(fixed.fixedRoot))

createWalkEntrySync(path) == createWalkEntry(path)

walkSync(w, maxDepth, includeFiles, match, skip) ==
    walk(w, maxDepth, includeFiles, match, skip)

expandGlobSyncBegin == begin(createWalkEntrySync(fixed.fixedRoot))

(***************************************************************************)
(* advanceMatch                                                            *)
(***************************************************************************)

Nothing == [err |-> "none", entries |-> {}]

\* advanceMatch(walkInfo, globSegment) of expandGlob: the entries it yields
\* (as a set, in the walker's order) or the error it throws.
advanceMatch(walkInfo, globSegment) ==
    IF ~walkInfo.isDirectory THEN Nothing
    ELSE IF globSegment = DOTDOT THEN
         LET parentPath == joinGlobs(<<walkInfo.path, DOTDOT>>, globstar)
             info == createWalkEntry(parentPath)
         IN IF ~shouldInclude(parentPath) THEN Nothing
            ELSE IF info.err = "none" THEN [err |-> "none", entries |-> {info.entry}]
            ELSE [err |-> throwUnlessNotFound(info.err), entries |-> {}]
    ELSE IF globSegment = GLOBSTAR THEN
         walk(walkInfo.path, Infinity, FALSE, NoMatch, excludePatterns)
    ELSE walk(walkInfo.path, 1, TRUE,
              {joinGlobs(<<walkInfo.path, globSegment>>, globstar)}, excludePatterns)

\* Variant of advanceMatchSync whose depth-1 walk has lost the skip option.
advanceMatchSyncNoSkip(walkInfo, globSegment) ==
    IF ~walkInfo.isDirectory THEN Nothing
    ELSE IF globSegment = DOTDOT THEN
         LET parentPath == joinGlobs(<<walkInfo.path, DOTDOT>>, globstar)
             info == createWalkEntrySync(parentPath)
         IN IF ~shouldInclude(parentPath) THEN Nothing
            ELSE IF info.err = "none" THEN [err |-> "none", entries |-> {info.entry}]
            ELSE [err |-> throwUnlessNotFound(info.err), entries |-> {}]
    ELSE IF globSegment = GLOBSTAR THEN
         walkSync(walkInfo.path, Infinity, FALSE, NoMatch, excludePatterns)
    ELSE walkSync(walkInfo.path, 1, TRUE,
                  {joinGlobs(<<walkInfo.path, globSegment>>, globstar)}, {})

\* advanceMatch of expandGlobSync.
advanceMatchSync(walkInfo, globSegment) ==
    IF ~walkInfo.isDirectory THEN Nothing
    ELSE IF globSegment = DOTDOT THEN
         LET parentPath == joinGlobs(<<walkInfo.path, DOTDOT>>, globstar)
             info == createWalkEntrySync(parentPath)
         IN IF ~shouldInclude(parentPath) THEN Nothing
            ELSE IF info.err = "none" THEN [err |-> "none", entries |-> {info.entry}]
            ELSE [err |-> throwUnlessNotFound(info.err), entries |-> {}]
    ELSE IF globSegment = GLOBSTAR THEN
         walkSync(walkInfo.path, Infinity, FALSE, NoMatch, excludePatterns)
    ELSE walkSync(walkInfo.path, 1, TRUE,
                  {joinGlobs(<<walkInfo.path, globSegment>>, globstar)}, excludePatterns)

(***************************************************************************)
(* The segment loop: Map, sort, final filters                              *)
(***************************************************************************)

\* Variant of mapSet that collects into an array instead of a Map.
mapSetAppend(m, e) == Append(m, e)

\* nextMatchMap.set(nextMatch.path, nextMatch): a Map keeps the position of
\* a key that is already present.
mapSet(m, e) ==
    IF \E i \in 1..Len(m) : m[i].path = e.path
    THEN [i \in 1..Len(m) |-> IF m[i].path = e.path THEN e ELSE m[i]]
    ELSE Append(m, e)

RECURSIVE mapSetAll(_, _)
mapSetAll(m, es) ==
    IF es = <<>> THEN m ELSE mapSetAll(mapSet(m, Head(es)), Tail(es))

comparePath(a, b) ==
    IF StrLess(a.path, b.path) THEN -1
    ELSE IF StrLess(b.path, a.path) THEN 1
    ELSE 0

\* Array.prototype.sort(comparePath) (a stable sort).
RECURSIVE insertSorted(_, _)
insertSorted(e, sorted) ==
    IF sorted = <<>> THEN <<e>>
    ELSE IF comparePath(e, Head(sorted)) < 0 THEN <<e>> \o sorted
    ELSE <<Head(sorted)>> \o insertSorted(e, Tail(sorted))

RECURSIVE sortMatches(_)
sortMatches(m) ==
    IF m = <<>> THEN <<>>
    ELSE insertSorted(m[Len(m)], sortMatches(SubSeq(m, 1, Len(m) - 1)))

\* Variant of nextMatches without the sort.
nextMatchesUnsorted(m) == m

\* currentMatches = [...nextMatchMap.values()].sort(comparePath)
nextMatches(m) == sortMatches(m)

\* Variant of finalMatches without the includeDirs filter.
finalMatchesKeepDirs(m, trailingSep, dirsToo) ==
    IF trailingSep THEN SelectSeq(m, LAMBDA e : e.isDirectory) ELSE m

\* The two filters applied once every segment is advanced (expandGlob).
finalMatches(m, trailingSep, dirsToo) ==
    LET m1 == IF trailingSep THEN SelectSeq(m, LAMBDA e : e.isDirectory) ELSE m
    IN IF ~dirsToo THEN SelectSeq(m1, LAMBDA e : ~e.isDirectory) ELSE m1

\* The same filters in expandGlobSync.
finalMatchesSync(m, trailingSep, dirsToo) ==
    LET m1 == IF trailingSep THEN SelectSeq(m, LAMBDA e : e.isDirectory) ELSE m
    IN IF ~dirsToo THEN SelectSeq(m1, LAMBDA e : ~e.isDirectory) ELSE m1

\* The orders in which a walk may yield a set of entries.
RECURSIVE Orders(_)
Orders(S) ==
    IF S = {} THEN {<<>>}
    ELSE UNION {{<<x>> \o o : o \in Orders(S \ {x})} : x \in S}

(***************************************************************************)
(* The inputs explored                                                     *)
(***************************************************************************)

\* Filesystem trees.  Tree 1 is the tree of the scenarios (a/b.ts, a/c.txt,
\* a/x/y.ts under the root /r) with a second directory a.d and a file /o
\* outside the root; in tree 2 the name a is a file.
Trees ==
    { [dirs |-> {<<"/">>, <<"/", "r">>, <<"/", "r", "/", "a">>, <<"/", "r", "/", "a", "/", "x">>, <<"/", "r", "/", "a", ".", "d">>},
       files |-> {<<"/", "r", "/", "a", "/", "b", ".", "t", "s">>, <<"/", "r", "/", "a", "/", "c", ".", "t", "x", "t">>, <<"/", "r", "/", "a", "/", "x", "/", "y", ".", "t", "s">>, <<"/", "r", "/", "a", ".", "d", "/", "y", ".", "t", "s">>, <<"/", "o">>}],
      [dirs |-> {<<"/">>, <<"/", "r">>, <<"/", "r", "/", "x">>},
       files |-> {<<"/", "r", "/", "a">>, <<"/", "r", "/", "x", "/", "b", ".", "t", "s">>, <<"/", "o">>}] }

Globs ==
    { <<"a", "/", "*", ".", "t", "s">>,
      <<"a", "/", "*", "*", "/", "*", ".", "t", "s">>,
      <<"a", "/">>,
      <<"m", "/", "*", ".", "t", "s">>,
      <<"a", "/", "*", "*", "/", ".", ".">>,
      <<"*", "/", ".", ".", "/", ".", ".">>,
      <<"a", "/", "x">>,
      <<"a", "/", "x", "/", "y", ".", "t", "s">>,
      <<"/", "o">>,
      <<"*", "/", "*">>,
      <<"a", "/", "x", "/", "*", "*">>,
      <<"*", "*", "/", "*", "*">>,
      <<"*", "*", "/", ".", ".">> }

Roots == {<<"/", "r">>, <<"r">>}

Excludes ==
    { <<>>,
      <<<<"a", "/", "x">>>>,
      <<<<"a", "/", "*", ".", "t", "s">>, <<"a", ".", "d">>>> }

BrokenCandidates == {<<"/", "r">>, <<"/", "r", "/", "a", "/", "x">>}

Modes == {"async", "sync"}

\* How many subtrees the environment may remove during the calls.
MaxUnlinks == 1

NoCall == [mode |-> "none", includeDirs |-> FALSE, yielded |-> <<>>, err |-> "none",
           pc |-> "none"]


(***************************************************************************)
(* The calls                                                               *)
(***************************************************************************)

Init ==
    /\ \E t \in Trees : dirs = t.dirs /\ files = t.files
    /\ broken \in {{}} \cup {{b} : b \in BrokenCandidates \cap dirs}
    /\ unlinks = 0
    /\ glob \in Globs
    /\ root \in Roots
    /\ isAbsolute(root) <=> <<SEP, "r", SEP, "a", SEP, "x">> \in dirs
    /\ exclude \in Excludes
    /\ globstar \in BOOLEAN
    /\ includeDirs \in BOOLEAN
    /\ mode \in Modes
    /\ pc = "start"
    /\ segments = <<>>
    /\ hasTrailingSep = FALSE
    /\ currentMatches = <<>>
    /\ nextMatchMap = <<>>
    /\ idx = 1
    /\ advanced = <<>>
    /\ yielded = <<>>
    /\ err = "none"
    /\ first = NoCall

\* From the call to the segment loop: resolve and split the glob, consume
\* the fixed root, stat it, seed the working set.
Begin ==
    /\ pc = "start"
    /\ \E b \in {IF mode = "async" THEN expandGlobBegin ELSE expandGlobSyncBegin} :
          /\ pc' = b.pc
          /\ err' = b.err
          /\ currentMatches' = b.matches
    /\ segments' = fixed.segments
    /\ hasTrailingSep' = splitGlob.hasTrailingSep
    /\ nextMatchMap' = <<>>
    /\ idx' = 1
    /\ UNCHANGED <<fsVars, argVars, includeDirs, mode, advanced, yielded, first>>

\* One iteration of `for (const currentMatch of currentMatches)`: advance
\* the match by the segment and put what it yields into the Map; after the
\* last match of the segment, the Map's values, sorted, become the working
\* set.
Advance ==
    /\ pc = "match"
    /\ segments # <<>>
    /\ idx <= Len(currentMatches)
    /\ \E r \in {IF mode = "async"
                  THEN advanceMatch(currentMatches[idx], Head(segments))
                  ELSE advanceMatchSync(currentMatches[idx], Head(segments))} :
          /\ advanced' = IF idx = 1 THEN <<currentMatches[idx].path>>
                         ELSE Append(advanced, currentMatches[idx].path)
          /\ IF r.err # "none"
             THEN /\ pc' = "failed"
                  /\ err' = r.err
                  /\ UNCHANGED <<segments, currentMatches, nextMatchMap, idx>>
             ELSE \E order \in Orders(r.entries) :
                  \E m \in {mapSetAll(nextMatchMap, order)} :
                     /\ UNCHANGED <<pc, err>>
                     /\ IF idx = Len(currentMatches)
                        THEN /\ currentMatches' = nextMatches(m)
                             /\ segments' = Tail(segments)
                             /\ nextMatchMap' = <<>>
                             /\ idx' = 1
                        ELSE /\ nextMatchMap' = m
                             /\ idx' = idx + 1
                             /\ UNCHANGED <<segments, currentMatches>>
    /\ UNCHANGED <<fsVars, argVars, includeDirs, mode, hasTrailingSep, yielded, first>>

\* A segment met with an empty working set: the Map stays empty.
AdvanceNone ==
    /\ pc = "match"
    /\ segments # <<>>
    /\ currentMatches = <<>>
    /\ currentMatches' = nextMatches(<<>>)
    /\ segments' = Tail(segments)
    /\ advanced' = <<>>
    /\ UNCHANGED <<fsVars, argVars, includeDirs, mode, pc, hasTrailingSep,
                   nextMatchMap, idx, yielded, err, first>>

\* Every segment is advanced: apply the trailing-separator and includeDirs
\* filters; the generator is about to `yield* currentMatches`.
Filter ==
    /\ pc = "match"
    /\ segments = <<>>
    /\ currentMatches' =
          IF mode = "async"
          THEN finalMatches(currentMatches, hasTrailingSep, includeDirs)
          ELSE finalMatchesSync(currentMatches, hasTrailingSep, includeDirs)
    /\ pc' = "yield"
    /\ UNCHANGED <<fsVars, argVars, includeDirs, mode, segments, hasTrailingSep,
                   nextMatchMap, idx, advanced, yielded, err, first>>

\* The caller takes the next entry.
Yield ==
    /\ pc = "yield"
    /\ Len(yielded) < Len(currentMatches)
    /\ yielded' = Append(yielded, currentMatches[Len(yielded) + 1])
    /\ UNCHANGED <<fsVars, argVars, includeDirs, mode, pc, segments, hasTrailingSep,
                   currentMatches, nextMatchMap, idx, advanced, err, first>>

\* The generator returns.
Return ==
    /\ pc = "yield"
    /\ Len(yielded) = Len(currentMatches)
    /\ pc' = "done"
    /\ UNCHANGED <<fsVars, argVars, includeDirs, mode, segments, hasTrailingSep,
                   currentMatches, nextMatchMap, idx, advanced, yielded, err, first>>

\* A second call with the same glob, root and exclude on the same tree: with
\* the same includeDirs in either mode, or in the same mode with the other
\* value of includeDirs.
CallAgain ==
    /\ pc \in {"done", "failed"}
    /\ first = NoCall
    /\ first' = [mode |-> mode, includeDirs |-> includeDirs, yielded |-> yielded,
                 err |-> err, pc |-> pc]
    /\ \/ mode' \in Modes /\ includeDirs' = includeDirs
       \/ mode' = mode /\ includeDirs' = ~includeDirs
    /\ pc' = "start"
    /\ segments' = <<>>
    /\ hasTrailingSep' = FALSE
    /\ currentMatches' = <<>>
    /\ nextMatchMap' = <<>>
    /\ idx' = 1
    /\ advanced' = <<>>
    /\ yielded' = <<>>
    /\ err' = "none"
    /\ UNCHANGED <<fsVars, argVars>>

Next == Begin \/ Advance \/ AdvanceNone \/ Filter \/ Yield \/ Return \/ CallAgain

Spec == Init /\ [][Next]_vars

\* The environment removes the subtree at p while a call is in progress.
Unlink ==
    /\ unlinks < MaxUnlinks
    /\ pc \in {"start", "match"}
    /\ \E p \in (dirs \cup files) \ {<<SEP>>} :
          LET gone == {q \in dirs \cup files :
                          q = p \/ (Len(q) > Len(p) /\ SubSeq(q, 1, Len(p) + 1) = Append(p, SEP))}
          IN /\ dirs' = dirs \ gone
             /\ files' = files \ gone
             /\ broken' = broken \ gone
    /\ unlinks' = unlinks + 1
    /\ UNCHANGED <<argVars, includeDirs, mode, pc, segments, hasTrailingSep,
                   currentMatches, nextMatchMap, idx, advanced, yielded, err, first>>

\* One call while the environment may remove a subtree.
GlobsFs ==
    { <<"m", "/", "*", ".", "t", "s">>,
      <<"a", "/", "*", "*", "/", ".", ".">>,
      <<"*", "*", "/", ".", ".">>,
      <<"a", "/", "*", ".", "t", "s">> }

InitFs == Init /\ glob \in GlobsFs /\ includeDirs

NextFs == Begin \/ Advance \/ AdvanceNone \/ Filter \/ Yield \/ Return \/ Unlink

SpecFs == InitFs /\ [][NextFs]_vars


(***************************************************************************)
(* Properties                                                              *)
(***************************************************************************)

PathsOf(m) == [i \in 1..Len(m) |-> m[i].path]

Range(m) == {m[i] : i \in 1..Len(m)}

NoDuplicates(ps) == \A i, j \in 1..Len(ps) : ps[i] = ps[j] => i = j

Ascending(ps) == \A i \in 1..(Len(ps) - 1) : StrLess(ps[i], ps[i + 1])

NonDirs(m) == SelectSeq(m, LAMBDA e : ~e.isDirectory)

\* p is path q or lies beneath it.
AtOrBeneath(p, q) ==
    \/ p = q
    \/ q = <<SEP>> /\ isAbsolute(p)
    \/ Len(p) > Len(q) /\ SubSeq(p, 1, Len(q) + 1) = Append(q, SEP)

\* The paths from the first segment of p down to p itself.
Prefixes(p) ==
    {SubSeq(p, 1, k) : k \in {k \in 1..Len(p) : k = Len(p) \/ p[k + 1] = SEP}} \ {<<>>}

\* p matches an exclude pattern or lies beneath a path that matches one.
Excluded(p) == \E q \in Prefixes(p) : ~shouldInclude(q)

Exists(e) == e.path \in dirs \cup files /\ e.isDirectory = (e.path \in dirs)

HasParentSegment(g) == \E i \in 1..Len(SplitSep(g, <<>>)) : SplitSep(g, <<>>)[i] = DOTDOT

ASlash == <<"a", SEP>>
RA == <<SEP, "r", SEP, "a">>
Scenario1 == <<"a", SEP, "*", ".", "t", "s">>
Scenario2 == <<"a", SEP, "*", "*", SEP, "*", ".", "t", "s">>
BTs == Entry(<<SEP, "r", SEP, "a", SEP, "b", ".", "t", "s">>, FALSE)
YTs == Entry(<<SEP, "r", SEP, "a", SEP, "x", SEP, "y", ".", "t", "s">>, FALSE)

\* C1: no path occurs twice in the yielded sequence nor in the working set,
\* and within one segment advanceMatch is invoked at most once per path.
C1_NoDuplicates ==
    /\ NoDuplicates(PathsOf(yielded))
    /\ NoDuplicates(PathsOf(currentMatches))
    /\ NoDuplicates(advanced)

\* A match is about to yield an entry that an earlier match of the same
\* segment has already put into the Map.
C1_Witness ==
    /\ pc = "match" /\ segments # <<>> /\ idx > 1 /\ idx <= Len(currentMatches)
    /\ \E e \in advanceMatch(currentMatches[idx], Head(segments)).entries :
          \E i \in 1..Len(nextMatchMap) : nextMatchMap[i].path = e.path

\* C2: the working set and the yielded sequence are in strictly ascending
\* order of path, and two calls with the same arguments, whose walks list
\* the directories in any two orders, yield the same sequence.
C2_Sorted ==
    /\ Ascending(PathsOf(currentMatches))
    /\ Ascending(PathsOf(yielded))
    /\ (pc = "done" /\ first.pc = "done" /\ first.mode = mode
           /\ first.includeDirs = includeDirs)
          => yielded = first.yielded

\* In a second call, the Map holds entries in an order that is not the
\* sorted one.
C2_Witness ==
    /\ first.pc = "done" /\ first.mode = mode /\ first.includeDirs = includeDirs
    /\ pc = "match"
    /\ ~Ascending(PathsOf(nextMatchMap))

\* C3 (as claimed): no yielded entry matches an exclude pattern or lies
\* beneath a directory that matches one, the fixed root included.
C3_NoExcludedEntry == \A i \in 1..Len(yielded) : ~Excluded(yielded[i].path)

\* C4 (as claimed): every yielded entry exists in the tree and lies under
\* the resolved root.
C4_UnderRoot ==
    \A i \in 1..Len(yielded) : Exists(yielded[i]) /\ AtOrBeneath(yielded[i].path, absRoot)

\* C4 (amended): every yielded entry exists in the tree, with the kind the
\* entry states; it lies under the resolved root when the glob is relative
\* and has no ".." segment.
C4_ExistsAndUnderRootIfRelative ==
    \A i \in 1..Len(yielded) :
       /\ Exists(yielded[i])
       /\ (~isAbsolute(glob) /\ ~HasParentSegment(glob))
             => AtOrBeneath(yielded[i].path, absRoot)

C4_Witness ==
    /\ pc = "done" /\ ~isAbsolute(glob) /\ ~HasParentSegment(glob)
    /\ Len(yielded) >= 2

\* The match advanced next is a directory advanced by "..", and its parent
\* passes shouldInclude.
AtParentStat ==
    /\ pc = "match" /\ segments # <<>> /\ Head(segments) = DOTDOT
    /\ idx <= Len(currentMatches) /\ currentMatches[idx].isDirectory
    /\ shouldInclude(joinGlobs(<<currentMatches[idx].path, DOTDOT>>, globstar))

ParentStat == createWalkEntry(joinGlobs(<<currentMatches[idx].path, DOTDOT>>, globstar))

C5_Step ==
    /\ (pc = "start" /\ pc' # "start") =>
          /\ createWalkEntry(fixed.fixedRoot).err = "NotFound"
                => pc' = "done" /\ err' = "none" /\ yielded' = <<>>
          /\ createWalkEntry(fixed.fixedRoot).err = "Other"
                => pc' = "failed" /\ err' = "Other" /\ yielded' = <<>>
    /\ (AtParentStat /\ unlinks' = unlinks) =>
          /\ ParentStat.err = "NotFound"
                => /\ pc' = "match" /\ err' = "none"
                   /\ IF idx = Len(currentMatches)
                      THEN currentMatches' = sortMatches(nextMatchMap)
                      ELSE nextMatchMap' = nextMatchMap
          /\ ParentStat.err = "Other" => pc' = "failed" /\ err' = "Other"

C6_IncludeDirs ==
    /\ ~includeDirs => \A i \in 1..Len(yielded) : ~yielded[i].isDirectory
    /\ (pc = "done" /\ first.pc = "done" /\ first.includeDirs # includeDirs) =>
          IF includeDirs THEN first.yielded = NonDirs(yielded)
          ELSE yielded = NonDirs(first.yielded)

C6_Witness ==
    /\ pc = "done" /\ first.pc = "done" /\ first.includeDirs /\ ~includeDirs
    /\ \E i \in 1..Len(first.yielded) : first.yielded[i].isDirectory
    /\ yielded # <<>>

\* C7 (as claimed): for a glob that ends with a separator every yielded
\* entry is a directory and the result is the same with either value of
\* includeDirs; the glob a/ yields exactly the directory a.
C7_TrailingSep ==
    /\ splitGlob.hasTrailingSep => \A i \in 1..Len(yielded) : yielded[i].isDirectory
    /\ (pc = "done" /\ first.pc = "done" /\ splitGlob.hasTrailingSep
           /\ first.includeDirs # includeDirs) => yielded = first.yielded
    /\ (pc = "done" /\ glob = ASlash /\ RA \in dirs) => yielded = <<Entry(RA, TRUE)>>

\* C8: a call in one mode and a call in the other mode with the same
\* arguments end the same way: same entries in the same order, or the same
\* error.
C8_SameOutcome ==
    (pc \in {"done", "failed"} /\ first.pc # "none" /\ first.mode # mode
        /\ first.includeDirs = includeDirs)
       => pc = first.pc /\ err = first.err /\ yielded = first.yielded

C8_Witness ==
    /\ pc = "done" /\ first.pc = "done" /\ first.mode # mode
    /\ first.includeDirs = includeDirs
    /\ Len(yielded) >= 2

\* The expansion that takes no fixed root: it starts from the filesystem
\* root and advances every segment, leading literals included, through
\* advanceMatch.
RECURSIVE SortSet(_)
SortSet(S) ==
    IF S = {} THEN <<>>
    ELSE LET least == CHOOSE x \in S : \A y \in S \ {x} : StrLess(x.path, y.path)
         IN <<least>> \o SortSet(S \ {least})

RECURSIVE advanceEach(_, _)
advanceEach(matches, segs) ==
    IF segs = <<>> THEN [err |-> "none", matches |-> matches]
    ELSE LET rs == {advanceMatch(matches[i], Head(segs)) : i \in 1..Len(matches)}
         IN IF \E r \in rs : r.err # "none"
            THEN [err |-> (CHOOSE r \in rs : r.err # "none").err, matches |-> <<>>]
            ELSE advanceEach(SortSet(UNION {r.entries : r \in rs}), Tail(segs))

expandFromRoot ==
    LET all == advanceEach(<<Entry(<<SEP>>, TRUE)>>, splitGlob.segments)
    IN [err |-> all.err,
        matches |-> finalMatches(all.matches, splitGlob.hasTrailingSep, includeDirs)]

\* C9 (as claimed): on a tree free of I/O errors the call yields what the
\* expansion without a fixed root yields.
C9_FixedRootEquivalent ==
    (pc = "done" /\ broken = {}) =>
       expandFromRoot.err = "none" /\ yielded = expandFromRoot.matches

\* The directories the claim says "**" puts into the working set for the
\* directory p: p itself and every directory beneath p that neither
\* matches an exclude pattern nor lies beneath a directory under p that
\* does.
GlobstarClaimed(p) ==
    {Entry(d, TRUE) : d \in
        {d \in dirs : AtOrBeneath(d, p) /\
            (d = p \/ \A q \in Prefixes(d) : (Len(q) > Len(p)) => shouldInclude(q))}}

C10_Step ==
    /\ (pc = "match" /\ segments # <<>> /\ Head(segments) = GLOBSTAR
          /\ idx <= Len(currentMatches) /\ currentMatches[idx].isDirectory
          /\ pc' = "match")
         => (IF idx = Len(currentMatches) THEN Range(currentMatches')
             ELSE Range(nextMatchMap'))
            = Range(nextMatchMap) \cup GlobstarClaimed(currentMatches[idx].path)
    /\ (pc' = "done" /\ exclude = <<>> /\ broken = {} /\ includeDirs /\ YTs.path \in files) =>
          /\ glob = Scenario1 => yielded' = <<BTs>>
          /\ glob = Scenario2 => yielded' = <<BTs, YTs>>

\* C10 (as claimed): advancing a directory by "**" adds the directory and
\* every non-excluded directory beneath it, and no file; a/**/*.ts yields
\* a/b.ts and a/x/y.ts, a/*.ts yields a/b.ts only.
C10_Globstar == [][C10_Step]_vars

=============================================================================
